---- MODULE Spec2Model ----
(***************************************************************************)
(* Verification model of smetamath-rs' low-level primitives:               *)
(*   - bit_set.rs    : Bitset (head word + optional overflow Vec)          *)
(*   - line_cache.rs : LineCache (paged newline index, keyed by address)   *)
(*   - util.rs       : find_chapter_header, copy_portion                   *)
(*                                                                         *)
(* A machine word is modelled as the set of its one-bit positions          *)
(* (a subset of 0..bits_per_word-1): `a | b` is union, `a & b` is          *)
(* intersection, `1 << n` is {n}.  Index arithmetic (/, -, &) is done on   *)
(* integers exactly as in the source.                                      *)
(***************************************************************************)
EXTENDS Integers, Sequences, FiniteSets, TLC

VARIABLES
    sets,      \* the two Bitset values of a scope: sets[x] = [head, tail]
    heap,      \* Vec<usize> buffers owned through Bitset::tail, by address
    added,     \* history: the indices added to each Bitset so far
    last,      \* the last mutating call: <<name, self>>, and for replace_bit
               \* <<name, self, bit, returned value>>
    cloned,    \* history: bs2 was produced by bs.clone()
    iter,      \* the BitsetIter borrowed from sets["bs"], when live
    yielded,   \* what the live iterator's next() calls returned, in order
    mem,       \* the byte buffer living at each address
    lc,        \* the LineCache: lc.map is LineCache::map, (address, length) ->
               \* Vec<u32>; history: lc.origin, the buffer each stored index
               \* was built from, and lc.builds, how often make_index ran for
               \* each key
    res,       \* the last LineCache query and what it returned
    input,     \* the argument of find_chapter_header: the bytes, what they
               \* were made from, and the address of the first one
    skipped,   \* find_chapter_header's `offset`: the bytes its loop has sliced
               \* off the front of `buffer`
    chapter,   \* what find_chapter_header returned, once it has
    vec,       \* the Vec<u8> given to copy_portion: len, and the allocation
    copied     \* the last copy_portion call and how it ended

bvars == <<sets, heap, added, last, cloned, iter, yielded>>
lvars == <<mem, lc, res>>
uvars == <<input, skipped, chapter, vec, copied>>
vars == <<bvars, lvars, uvars>>

----------------------------------------------------------------------------
(* Bounds of the model *)

\* overflow words that set_bit/replace_bit inputs reach (besides FarBit)
MaxWord == 1
\* calls of next() made after the iterator first returned None
MaxNone == 2
\* bytes of the longest buffer beyond its second full page
Extra == 40
\* bytes that copy_portion calls append to a vector, in all
MaxGrow == 5
\* bytes that come before the first line of a find_chapter_header buffer, at
\* most (with Stride words of 4 bytes, every position of a header relative
\* to the words hunt reads occurs)
MaxPre == 76

(* Program constants *)

\* usize::BITS on a 64-bit target
bits_per_word == 64
\* the far index test_clone and test_iterator add
FarBit == 6000
\* the far index test_set_bit asks about before it was ever added
ProbeBit == 66000
\* the never-added index test_bitor_assign asks about
AbsentBit == 8000

\* line_cache.rs: bytes per index entry
PAGE == 256
\* line_cache.rs: bytes counted per i8 accumulator
Block == 128
\* row_size of test_large
RowSize == 30
\* b'\n', b'\r' and a byte that is neither
NL == 10
CR == 13
Ch == 97

\* util.rs: the punctuation of a chapter header, b'#', b'*', b'$', b'('
Hash == 35
Star == 42
Dollar == 36
Paren == 40
\* util.rs: LANDING_STRIP.len()
StripLen == 79
\* util.rs: the words hunt advances by
Stride == 19
\* util.rs: the u32 values hunt looks for
HitA == 706947619
HitB == 589964074

Names == {"bs", "bs2"}
Addrs == {1, 2}

\* the indices the operations are called with: both ends of head, one bit in
\* each of the first MaxWord overflow words (its lowest bit in odd words, its
\* highest in even words), and the far index
Bits == {0, bits_per_word - 1} \cup
        {k * bits_per_word + (IF k % 2 = 0 THEN bits_per_word - 1 ELSE 0) :
            k \in 1..MaxWord} \cup
        {FarBit}
\* the indices has_bit is asked about: also the neighbours of each, the same
\* bit position one word further, and indices past anything ever allocated
Probe == Bits \cup {b + 1 : b \in Bits} \cup {b - 1 : b \in Bits \ {0}}
              \cup {b + bits_per_word : b \in Bits}
              \cup {ProbeBit, AbsentBit}

----------------------------------------------------------------------------
(* Word arithmetic *)

RECURSIVE BitAnd(_, _)
\* a & b on usize values
BitAnd(a, b) ==
    IF a = 0 \/ b = 0 THEN 0
    ELSE 2 * BitAnd(a \div 2, b \div 2) + (IF a % 2 = 1 /\ b % 2 = 1 THEN 1 ELSE 0)

\* 1 << n, as the set of one-bits of the resulting word
Shl1(n) == {n}

Min(S) == CHOOSE m \in S : \A n \in S : m <= n

\* usize::trailing_zeros of a non-zero word
trailing_zeros(w) == Min(w)

\* w & (w - 1): clears the lowest one-bit
ClearLowest(w) == w \ {Min(w)}

\* Vec::resize(n, 0)
Resize(t, n) == [i \in 1..n |-> IF i <= Len(t) THEN t[i] ELSE {}]

----------------------------------------------------------------------------
(* Bitset: src/src/bit_set.rs *)

None == 0

\* Bitset::new()
new == [head |-> {}, tail |-> None]

FreeCell == [live |-> FALSE, words |-> <<>>]

\* the allocator hands out an address that holds no live Vec
Alloc(H) == Min({a \in Addrs : ~H[a].live})

\* Bitset::tail(): the overflow words as a slice, empty when absent
tail(S, H, x) == IF S[x].tail = None THEN <<>> ELSE H[S[x].tail].words

\* Bitset::tail_mut(): allocates an empty Vec when absent
tail_mut(S, H, x) ==
    IF S[x].tail = None
    THEN LET a == Alloc(H) IN
         [sets |-> [S EXCEPT ![x].tail = a],
          heap |-> [H EXCEPT ![a] = [live |-> TRUE, words |-> <<>>]]]
    ELSE [sets |-> S, heap |-> H]

set_bit_noadjust(S, H, x, bit) ==
    IF bit < bits_per_word
    THEN [sets |-> [S EXCEPT ![x].head = @ \cup Shl1(bit)], heap |-> H]
    ELSE LET word == bit \div bits_per_word
             m == tail_mut(S, H, x)
             a == m.sets[x].tail
             t0 == m.heap[a].words
             t1 == IF word >= Len(t0) THEN Resize(t0, word + 1) ELSE t0
             t2 == [t1 EXCEPT ![word + 1] =
                        @ \cup Shl1(BitAnd(bit, bits_per_word - 1))]
         IN [sets |-> m.sets, heap |-> [m.heap EXCEPT ![a].words = t2]]

\* Bitset::set_bit
set_bit(S, H, x, bit) ==
    IF bit < bits_per_word
    THEN [sets |-> [S EXCEPT ![x].head = @ \cup Shl1(bit)], heap |-> H]
    ELSE LET word == bit \div bits_per_word - 1
             m == tail_mut(S, H, x)
             a == m.sets[x].tail
             t0 == m.heap[a].words
             t1 == IF word >= Len(t0) THEN Resize(t0, word + 1) ELSE t0
             t2 == [t1 EXCEPT ![word + 1] =
                        @ \cup Shl1(BitAnd(bit, bits_per_word - 1))]
         IN [sets |-> m.sets, heap |-> [m.heap EXCEPT ![a].words = t2]]

\* Bitset::has_bit
has_bit(S, H, x, bit) ==
    IF bit < bits_per_word
    THEN (S[x].head \cap Shl1(bit)) # {}
    ELSE LET word == bit \div bits_per_word - 1
             t == tail(S, H, x)
         IN word < Len(t)
            /\ (t[word + 1] \cap Shl1(BitAnd(bit, bits_per_word - 1))) # {}

replace_bit_stale(S, H, x, bit) ==
    IF bit < bits_per_word
    THEN [sets |-> [S EXCEPT ![x].head = @ \cup Shl1(bit)], heap |-> H,
          old |-> (S[x].head \cap Shl1(bit)) # {}]
    ELSE LET word == bit \div bits_per_word - 1
             m == tail_mut(S, H, x)
             a == m.sets[x].tail
             t0 == m.heap[a].words
             mask == Shl1(BitAnd(bit, bits_per_word - 1))
             grow == word >= Len(t0)
             t1 == IF grow THEN Resize(t0, word + 1) ELSE t0
             t2 == [t1 EXCEPT ![word + 1] = @ \cup mask]
             old == (t2[word + 1] \cap mask) # {}
         IN [sets |-> m.sets, heap |-> [m.heap EXCEPT ![a].words = t2],
             old |-> old]

\* Bitset::replace_bit
replace_bit(S, H, x, bit) ==
    IF bit < bits_per_word
    THEN [sets |-> [S EXCEPT ![x].head = @ \cup Shl1(bit)], heap |-> H,
          old |-> (S[x].head \cap Shl1(bit)) # {}]
    ELSE LET word == bit \div bits_per_word - 1
             m == tail_mut(S, H, x)
             a == m.sets[x].tail
             t0 == m.heap[a].words
             mask == Shl1(BitAnd(bit, bits_per_word - 1))
             grow == word >= Len(t0)
             t1 == IF grow THEN Resize(t0, word + 1) ELSE t0
             old == IF grow THEN FALSE ELSE (t1[word + 1] \cap mask) # {}
             t2 == [t1 EXCEPT ![word + 1] = @ \cup mask]
         IN [sets |-> m.sets, heap |-> [m.heap EXCEPT ![a].words = t2],
             old |-> old]

bitor_assign_truncating(S, H, x, r) ==
    LET S1 == [S EXCEPT ![x].head = @ \cup S[r].head] IN
    IF S[r].tail = None
    THEN [sets |-> S1, heap |-> H]
    ELSE LET rtail == H[S[r].tail].words
             m == tail_mut(S1, H, x)
             a == m.sets[x].tail
             s0 == m.heap[a].words
             s1 == Resize(s0, Len(rtail))
             s2 == [i \in 1..Len(s1) |->
                        IF i <= Len(rtail) THEN s1[i] \cup rtail[i] ELSE s1[i]]
         IN [sets |-> m.sets, heap |-> [m.heap EXCEPT ![a].words = s2]]

\* <Bitset as BitOrAssign<&Bitset>>::bitor_assign: self = x, rhs = r
bitor_assign(S, H, x, r) ==
    LET S1 == [S EXCEPT ![x].head = @ \cup S[r].head] IN
    IF S[r].tail = None
    THEN [sets |-> S1, heap |-> H]
    ELSE LET rtail == H[S[r].tail].words
             m == tail_mut(S1, H, x)
             a == m.sets[x].tail
             s0 == m.heap[a].words
             s1 == IF Len(rtail) > Len(s0) THEN Resize(s0, Len(rtail)) ELSE s0
             s2 == [i \in 1..Len(s1) |->
                        IF i <= Len(rtail) THEN s1[i] \cup rtail[i] ELSE s1[i]]
         IN [sets |-> m.sets, heap |-> [m.heap EXCEPT ![a].words = s2]]

\* dropping the Bitset held in x frees the Vec it owns
Drop(S, H, x) ==
    IF S[x].tail = None THEN H ELSE [H EXCEPT ![S[x].tail] = FreeCell]

clone_shallow(S, H, x, y) ==
    [sets |-> [S EXCEPT ![y] = S[x]], heap |-> H]

\* y = x.clone(): Option<Vec<usize>>::cloned copies the Vec into a new buffer;
\* the value y held before is dropped by the assignment
clone(S, H, x, y) ==
    LET H0 == Drop(S, H, y) IN
    IF S[x].tail = None
    THEN [sets |-> [S EXCEPT ![y] = [head |-> S[x].head, tail |-> None]],
          heap |-> H0]
    ELSE LET a == Alloc(H0) IN
         [sets |-> [S EXCEPT ![y] = [head |-> S[x].head, tail |-> a]],
          heap |-> [H0 EXCEPT ![a] = [live |-> TRUE,
                                      words |-> H[S[x].tail].words]]]

----------------------------------------------------------------------------
(* BitsetIter *)

NoIter == [live |-> FALSE, bits |-> {}, offset |-> 0, buffer |-> <<>>]

Some(v) == [some |-> TRUE, val |-> v]
NoneOut == [some |-> FALSE, val |-> 0]

into_iter_skip_head(S, H, x) ==
    [live |-> TRUE, bits |-> {}, offset |-> 0, buffer |-> tail(S, H, x)]

\* <&Bitset as IntoIterator>::into_iter
into_iter(S, H, x) ==
    [live |-> TRUE, bits |-> S[x].head, offset |-> 0, buffer |-> tail(S, H, x)]

\* the words the `while self.bits == 0` loop of next() takes from the slice
\* iterator: all of them when every remaining word is zero, else up to and
\* including the first non-zero word
Taken(buffer) ==
    LET nz == {i \in 1..Len(buffer) : buffer[i] # {}} IN
    IF nz = {} THEN Len(buffer) ELSE Min(nz)

\* BitsetIter::next: the new iterator state and the value returned.  The loop
\* adds bits_per_word to offset once per word taken, and once more when the
\* slice iterator is found exhausted.
next(it) ==
    LET k == IF it.bits = {} THEN Taken(it.buffer) ELSE 0
        found == it.bits # {} \/ (k > 0 /\ it.buffer[k] # {})
        bits == IF it.bits # {} THEN it.bits
                ELSE IF found THEN it.buffer[k] ELSE {}
        rest == SubSeq(it.buffer, k + 1, Len(it.buffer))
    IN IF found
       THEN [iter |-> [it EXCEPT !.bits = ClearLowest(bits),
                                 !.offset = @ + k * bits_per_word,
                                 !.buffer = rest],
             out |-> Some(trailing_zeros(bits) + it.offset + k * bits_per_word)]
       ELSE [iter |-> [it EXCEPT !.offset = @ + (k + 1) * bits_per_word,
                                 !.buffer = rest],
             out |-> NoneOut]

----------------------------------------------------------------------------
(* Actions of the Bitset specification *)

\* no LineCache in the scope
IdleLine ==
    /\ mem = <<>>
    /\ lc = <<>>
    /\ res = <<>>

\* no find_chapter_header call in progress
IdleChapter ==
    /\ input = <<>>
    /\ skipped = 0
    /\ chapter = <<>>

\* no vector being copied into
IdleCopy ==
    /\ vec = <<>>
    /\ copied = <<>>

IdleUtil == IdleChapter /\ IdleCopy

\* two empty Bitsets, nothing borrowed
NewBitsets ==
    /\ sets = [x \in Names |-> new]
    /\ heap = [a \in Addrs |-> FreeCell]
    /\ added = [x \in Names |-> {}]
    /\ last = <<"new", "bs">>
    /\ cloned = FALSE
    /\ iter = NoIter
    /\ yielded = <<>>

InitBitset == NewBitsets /\ IdleLine /\ IdleUtil

DoSetBit(x, bit) ==
    /\ ~iter.live
    /\ LET r == set_bit(sets, heap, x, bit) IN
       /\ sets' = r.sets
       /\ heap' = r.heap
    /\ added' = [added EXCEPT ![x] = @ \cup {bit}]
    /\ last' = <<"set_bit", x>>
    /\ UNCHANGED <<cloned, iter, yielded>>
    /\ UNCHANGED <<lvars, uvars>>

DoReplaceBit(x, bit) ==
    /\ ~iter.live
    /\ LET r == replace_bit(sets, heap, x, bit) IN
       /\ sets' = r.sets
       /\ heap' = r.heap
       /\ last' = <<"replace_bit", x, bit, r.old>>
    /\ added' = [added EXCEPT ![x] = @ \cup {bit}]
    /\ UNCHANGED <<cloned, iter, yielded>>
    /\ UNCHANGED <<lvars, uvars>>

\* x |= &r
DoMerge(x, r) ==
    /\ ~iter.live
    /\ x # r
    /\ LET m == bitor_assign(sets, heap, x, r) IN
       /\ sets' = m.sets
       /\ heap' = m.heap
    /\ added' = [added EXCEPT ![x] = @ \cup added[r]]
    /\ last' = <<"bitor_assign", x>>
    /\ UNCHANGED <<cloned, iter, yielded>>
    /\ UNCHANGED <<lvars, uvars>>

\* bs2 = bs.clone()
DoClone ==
    /\ ~iter.live
    /\ LET c == clone(sets, heap, "bs", "bs2") IN
       /\ sets' = c.sets
       /\ heap' = c.heap
    /\ added' = [added EXCEPT !["bs2"] = added["bs"]]
    /\ cloned' = TRUE
    /\ last' = <<"clone", "bs">>
    /\ UNCHANGED <<iter, yielded>>
    /\ UNCHANGED <<lvars, uvars>>

\* let mut iter = bs.into_iter()
DoIntoIter ==
    /\ ~iter.live
    /\ iter' = into_iter(sets, heap, "bs")
    /\ yielded' = <<>>
    /\ UNCHANGED <<sets, heap, added, last, cloned>>
    /\ UNCHANGED <<lvars, uvars>>

NoneCount(ys) == Cardinality({i \in 1..Len(ys) : ~ys[i].some})

\* iter.next()
DoNext ==
    /\ iter.live
    /\ NoneCount(yielded) <= MaxNone
    /\ LET n == next(iter) IN
       /\ iter' = n.iter
       /\ yielded' = Append(yielded, n.out)
    /\ UNCHANGED <<sets, heap, added, last, cloned>>
    /\ UNCHANGED <<lvars, uvars>>

\* the iterator goes out of scope; the borrow of bs ends
DoDropIter ==
    /\ iter.live
    /\ iter' = NoIter
    /\ yielded' = <<>>
    /\ UNCHANGED <<sets, heap, added, last, cloned>>
    /\ UNCHANGED <<lvars, uvars>>

NextBitset ==
    \/ \E x \in Names, bit \in Bits : DoSetBit(x, bit)
    \/ \E x \in Names, bit \in Bits : DoReplaceBit(x, bit)
    \/ \E x \in Names, r \in Names : DoMerge(x, r)
    \/ DoClone

\* a scope that mutates two Bitsets, merges them and forks one by clone
SpecBitset == InitBitset /\ [][NextBitset]_vars

NextIter ==
    \/ \E bit \in Bits : DoSetBit("bs", bit)
    \/ \E bit \in Bits : DoReplaceBit("bs", bit)
    \/ DoIntoIter
    \/ DoNext
    \/ DoDropIter

\* a scope that fills one Bitset and iterates over it, again and again (every
\* head and overflow contents a Bitset can hold is reached this way)
SpecIter == InitBitset /\ [][NextIter]_vars

----------------------------------------------------------------------------
(* Buffers the LineCache is queried against *)

\* "azerty\r\nazerty4\r\nazerty3\r\n" of test_from_offset
TestText ==
    <<97, 122, 101, 114, 116, 121, CR, NL,
      97, 122, 101, 114, 116, 121, 52, CR, NL,
      97, 122, 101, 114, 116, 121, 51, CR, NL>>

\* descriptor of a buffer of len bytes holding lines of w bytes, each ended by
\* '\n', in the byte range [lo, hi) and no '\n' elsewhere
Desc(w, lo, hi, len) == [text |-> FALSE, w |-> w, lo |-> lo, hi |-> hi, len |-> len]
TextDesc == [text |-> TRUE, w |-> 0, lo |-> 0, hi |-> 0, len |-> Len(TestText)]

\* the bytes of a buffer
Content(d) ==
    IF d.text THEN TestText
    ELSE SubSeq([i \in 1..d.len |->
                    IF d.lo < i /\ i <= d.hi /\ (i - d.lo) % (d.w + 1) = 0
                    THEN NL ELSE Ch],
                1, d.len)

\* a buffer made of fixed-width lines only, as test_large builds it
FixedWidth(d) == ~d.text /\ d.lo = 0 /\ d.hi = d.len

LongLen == 2 * PAGE + Extra

\* buffers of fixed-width lines (test_large's rows; every byte a '\n'; a '\n'
\* ending each page; two full pages; no '\n' at all; a line per i8 block),
\* buffers with '\n' only around a page boundary or only in the last, partial
\* page, the text of test_from_offset, and the buffers of 0 and 1 bytes
LineBuffers ==
    {Desc(RowSize, 0, LongLen, LongLen), Desc(0, 0, LongLen, LongLen),
     Desc(PAGE - 1, 0, LongLen, LongLen), Desc(1, 0, 2 * PAGE, 2 * PAGE),
     Desc(LongLen, 0, LongLen, LongLen),
     Desc(Block - 1, 0, PAGE + Block, PAGE + Block),
     Desc(0, PAGE - 3, PAGE + 2, LongLen), Desc(2, 2 * PAGE - 4, LongLen, LongLen),
     TextDesc, Desc(0, 0, 1, 1), Desc(0, 0, 0, 0)}

ShortLen == PAGE + Extra

\* two buffers of equal length and different contents ('\n' only in the first
\* bytes; '\n' only in the second page), and a short one
CacheBuffers ==
    {Desc(0, 0, 5, ShortLen), Desc(0, PAGE + 14, PAGE + 24, ShortLen), TextDesc}

\* the number of '\n' bytes in buf[lo..hi)
CountNL(buf, lo, hi) == Cardinality({i \in (lo + 1)..hi : buf[i] = NL})

----------------------------------------------------------------------------
(* LineCache: src/src/line_cache.rs *)

\* i8 arithmetic wraps to -128..127
I8(v) == ((v + 128) % 256) - 128
\* `inner as u8`
AsU8(v) == v % 256
\* u8::wrapping_neg
wrapping_neg(u) == (256 - u) % 256

inner_loop_count_up(buf, pos, n) == I8(CountNL(buf, pos, pos + n))

\* let mut inner = 0i8;
\* for &ch in &page[0..128] { inner += -((ch == b'\n') as i8); }
\* over the n bytes from pos on: n additions of 0 or -1 in wrapping i8
\* arithmetic, that is minus the number of '\n' among them, modulo 2^8
inner_loop(buf, pos, n) == I8(0 - CountNL(buf, pos, pos + n))

RECURSIVE page_loop(_, _, _, _)
\* while page.len() >= 128 { ...; count += (inner as u8).wrapping_neg() as u32 }
\* page = buf[pos..end)
page_loop(buf, pos, end, count) ==
    IF end - pos >= Block
    THEN page_loop(buf, pos + Block, end,
                   count + wrapping_neg(AsU8(inner_loop(buf, pos, Block))))
    ELSE count

RECURSIVE index_loop(_, _, _, _)
\* while buf.len() >= PAGE { ...; out.push(count); }, buf = the bytes from pos on
index_loop(buf, pos, count, out) ==
    IF Len(buf) - pos >= PAGE
    THEN LET c == page_loop(buf, pos, pos + PAGE, count) IN
         index_loop(buf, pos + PAGE, c, Append(out, c))
    ELSE out

\* make_index (its assert on buf.len() holds for every buffer of the model)
make_index(buf) == index_loop(buf, 0, 0, <<0>>)

Ok(a, b) == [ok |-> TRUE, v1 |-> a, v2 |-> b, msg |-> ""]
Panic(m) == [ok |-> FALSE, v1 |-> 0, v2 |-> 0, msg |-> m]
OutOfRange == "line out of range"
SubOverflow == "attempt to subtract with overflow"

RECURSIVE scan_steps(_, _, _, _)
\* n iterations, in order (the first half, then the rest), of
\*   while at_lineno < line { assert!(at_pos < buf.len()); ...; at_pos += 1; }
\* on s = <<at_lineno, at_pos>>; the loop is over once at_lineno >= line, or
\* once its assert fails
scan_steps(buf, s, line, n) ==
    IF n = 0 \/ ~(s[1] < line) \/ ~(s[2] < Len(buf)) THEN s
    ELSE IF n = 1
    THEN <<IF buf[s[2] + 1] = NL THEN s[1] + 1 ELSE s[1], s[2] + 1>>
    ELSE LET h == n \div 2 IN
         scan_steps(buf, scan_steps(buf, s, line, h), line, n - h)

\* the whole scan loop of line_to_offset, which takes at most one iteration
\* per byte from at_pos on: where it ends, and whether by the failed assert
scan(buf, at_lineno, at_pos, line) ==
    LET s == scan_steps(buf, <<at_lineno, at_pos>>, line, Len(buf) - at_pos) IN
    [panic |-> s[1] < line, pos |-> s[2]]

\* index.binary_search_by(|&ll| if ll < line { Less } else { Greater }).err():
\* the comparator never answers Equal, so the search ends at the partition
\* point of the (non-decreasing) index
partition_point(index, line) == Cardinality({i \in 1..Len(index) : index[i] < line})

line_to_offset_clamp(buf, index, line) ==
    LET page == partition_point(index, line) IN
    IF page = 0
    THEN IF line = 0 THEN Ok(0, 0) ELSE Panic(OutOfRange)
    ELSE LET r == scan(buf, index[page], (page - 1) * PAGE, line) IN
         Ok(r.pos, 0)

\* line_to_offset, line 0-based
line_to_offset(buf, index, line) ==
    LET page == partition_point(index, line) IN
    IF page = 0
    THEN IF line = 0 THEN Ok(0, 0) ELSE Panic(OutOfRange)
    ELSE LET r == scan(buf, index[page], (page - 1) * PAGE, line) IN
         IF r.panic THEN Panic(OutOfRange) ELSE Ok(r.pos, 0)

\* a LineCache with the index ix stored under key, built from the buffer d
Inserted(L, key, ix, d) ==
    [map |-> [k \in DOMAIN L.map \cup {key} |-> IF k = key THEN ix ELSE L.map[k]],
     origin |-> [k \in DOMAIN L.map \cup {key} |-> IF k = key THEN d ELSE L.origin[k]],
     builds |-> [k \in DOMAIN L.builds \cup {key} |->
                   IF k \in DOMAIN L.builds
                   THEN L.builds[k] + (IF k = key THEN 1 ELSE 0) ELSE 1]]

get_index_always_build(L, a, b) ==
    Inserted(L, <<a, Len(b.bytes)>>, make_index(b.bytes), b.d)

\* LineCache::get_index: map.entry((ptr, len)).or_insert_with(|| make_index(buf))
\* for the buffer b at address a: the LineCache afterwards, which holds the
\* index returned under the key
get_index(L, a, b) ==
    LET key == <<a, Len(b.bytes)>> IN
    IF key \in DOMAIN L.map THEN L
    ELSE Inserted(L, key, make_index(b.bytes), b.d)

\* the body of LineCache::to_offset after get_index, for a line >= 1 (lines
\* are 1-based)
to_offset(buf, index, line) == line_to_offset(buf, index, line - 1)

from_offset_whole_prefix(buf, index, offset) ==
    LET lineno == index[offset \div PAGE + 1] + CountNL(buf, 0, offset)
        start == line_to_offset(buf, index, lineno)
    IN IF ~start.ok THEN {start}
       ELSE IF start.v1 > offset
       THEN {Panic(SubOverflow), Ok(lineno + 1, offset - start.v1 + 1)}
       ELSE {Ok(lineno + 1, offset - start.v1 + 1)}

\* the body of LineCache::from_offset after get_index, for offset <= buf.len():
\* the set of outcomes.  `offset - line_to_offset(..)` on usize panics when
\* negative in a checked build and wraps in an unchecked one; the wrapped
\* column, a u32, is given by its representative offset - start + 1 <= 0
\* modulo 2^32.
from_offset(buf, index, offset) ==
    LET lineno == index[offset \div PAGE + 1]
                  + CountNL(buf, (offset \div PAGE) * PAGE, offset)
        start == line_to_offset(buf, index, lineno)
    IN IF ~start.ok THEN {start}
       ELSE IF start.v1 > offset
       THEN {Panic(SubOverflow), Ok(lineno + 1, offset - start.v1 + 1)}
       ELSE {Ok(lineno + 1, offset - start.v1 + 1)}

line_end_past(buf, offset) ==
    LET nls == {pos \in offset..(Len(buf) - 1) : buf[pos + 1] = NL} IN
    IF nls = {} THEN Len(buf) ELSE Min(nls) + 1

\* LineCache::line_end: the first pos >= offset holding '\n', else buf.len()
line_end(buf, offset) ==
    LET nls == {pos \in offset..(Len(buf) - 1) : buf[pos + 1] = NL} IN
    IF nls = {} THEN Len(buf) ELSE Min(nls)

----------------------------------------------------------------------------
(* Actions of the LineCache specifications *)

\* what res records of a query: the operation, the address and descriptor of
\* the buffer it was made against, its argument and its outcome; `from` is the
\* offset of the from_offset query just before it, when this one is the
\* to_offset of the line that one returned for the same buffer (else -1)
Query(op, a, d, arg, from, out) ==
    [op |-> op, addr |-> a, buf |-> d, arg |-> arg, from |-> from,
     ok |-> out.ok, v1 |-> out.v1, v2 |-> out.v2, msg |-> out.msg]

Key(a) == <<a, Len(mem[a].bytes)>>

\* lc.from_offset(buf, offset), buf the buffer at address a
FromOffset(a, offset) ==
    /\ offset \in 0..Len(mem[a].bytes)
    /\ lc' = get_index(lc, a, mem[a])
    /\ \E out \in from_offset(mem[a].bytes, lc'.map[Key(a)], offset) :
          res' = Query("from_offset", a, mem[a].d, offset, -1, out)
    /\ UNCHANGED mem
    /\ UNCHANGED <<bvars, uvars>>

\* lc.to_offset(buf, line), buf the buffer at address a
ToOffset(a, line) ==
    /\ line >= 1
    /\ lc' = get_index(lc, a, mem[a])
    /\ res' = Query("to_offset", a, mem[a].d, line,
                    IF /\ res.op = "from_offset" /\ res.ok /\ res.v1 = line
                       /\ res.addr = a /\ res.buf = mem[a].d
                    THEN res.arg ELSE -1,
                    to_offset(mem[a].bytes, lc'.map[Key(a)], line))
    /\ UNCHANGED mem
    /\ UNCHANGED <<bvars, uvars>>

\* a buffer: its bytes, and the descriptor they were made from
Buffer(d) == [d |-> d, bytes |-> Content(d)]

\* the buffer at address a is freed and another buffer is allocated there
Realloc(a, d) ==
    /\ d # mem[a].d
    /\ mem' = [mem EXCEPT ![a] = Buffer(d)]
    /\ UNCHANGED <<lc, res>>
    /\ UNCHANGED <<bvars, uvars>>

NoQuery == Query("none", 0, TextDesc, 0, -1, Ok(0, 0))

\* LineCache::default(), not yet queried
EmptyCache ==
    /\ lc = [map |-> <<>>, origin |-> <<>>, builds |-> <<>>]
    /\ res = NoQuery

\* LineCache::default() and one buffer
InitLine ==
    /\ NewBitsets
    /\ IdleUtil
    /\ mem \in [{1} -> {Buffer(d) : d \in LineBuffers}]
    /\ EmptyCache

\* the lines asked for: up to two past the last line of the buffer
Lines(buf) == 1..(CountNL(buf, 0, Len(buf)) + 3)

\* the first query of a cache is any query; the one query that follows a
\* from_offset is the to_offset of the line it returned
Offsets(buf) ==
    IF res.op = "none" THEN 0..Len(buf) ELSE {}
LinesAsked(buf) ==
    IF res.op = "none" THEN Lines(buf)
    ELSE IF res.op = "from_offset" /\ res.ok THEN {res.v1} ELSE {}

NextLine ==
    \/ \E a \in DOMAIN mem : \E o \in Offsets(mem[a].bytes) : FromOffset(a, o)
    \/ \E a \in DOMAIN mem : \E line \in LinesAsked(mem[a].bytes) : ToOffset(a, line)

\* queries of one LineCache against one live buffer
SpecLine == InitLine /\ [][NextLine]_vars

\* LineCache::default() and two buffers
InitCache ==
    /\ NewBitsets
    /\ IdleUtil
    /\ mem \in [{1, 2} -> {Buffer(d) : d \in CacheBuffers}]
    /\ EmptyCache

\* the offsets and lines asked for where buffers come and go
SomeOffsets == {3, PAGE + 4}
SomeLines == {1, 6}

NextCache ==
    \/ \E a \in DOMAIN mem, o \in SomeOffsets : FromOffset(a, o)
    \/ \E a \in DOMAIN mem, line \in SomeLines : ToOffset(a, line)
    \/ \E a \in DOMAIN mem, d \in CacheBuffers : Realloc(a, d)

\* queries of one LineCache that outlives buffers whose addresses are reused
SpecCache == InitCache /\ [][NextCache]_vars

----------------------------------------------------------------------------
(* find_chapter_header: src/src/util.rs *)

\* n bytes b
Fill(n, b) == [i \in 1..n |-> b]
\* n bytes, alternately '#' and '*', the first one being `first`
Run(first, n) ==
    [i \in 1..n |-> IF i % 2 = 1 THEN first ELSE Hash + Star - first]

\* b"#*#*...*#", 79 bytes
LANDING_STRIP == SubSeq(Run(Hash, StripLen), 1, StripLen)

\* LANDING_STRIP with the byte at (0-based) position at replaced by b
Broken(at, b) == [i \in 1..StripLen |-> IF i = at + 1 THEN b ELSE LANDING_STRIP[i]]

\* the buffers find_chapter_header is given, by kind, after pre other bytes:
\*   lf, crlf   a header as in test_find_chapter, with LF or CRLF line ends
\*   long       a header whose line goes on after the 79 bytes
\*   decoy      a 79-byte line without "$(" before it, then a header
\*   two        two headers
\*   star       a header whose line begins with '*'
\*   moo        "$(MOO" before the line
\*   hashes     the line broken by "###" (test_find_chapter)
\*   letter     the line broken by a byte that is neither '#' nor '*'
\*   bare       the line with nothing before it but the pre bytes
\*   nodollar   the line at the start of a line, without "$(" before it
\*   inline     "$(" not at the start of a line
\*   short      fewer than 79 bytes of '#' and '*'
ChapterText(kind, pre) ==
    LET p == Fill(pre, Ch)
        open == <<NL, Dollar, Paren, NL>>
        line == LANDING_STRIP \o <<NL>>
    IN CASE kind = "lf" -> p \o open \o line
         [] kind = "crlf" -> p \o <<CR, NL, Dollar, Paren, CR, NL>> \o line
         [] kind = "long" -> p \o open \o LANDING_STRIP \o <<Star, Hash, NL>>
         [] kind = "decoy" -> p \o line \o Fill(5, Ch) \o open \o line
         [] kind = "two" -> p \o open \o line \o open \o line
         [] kind = "star" -> p \o open \o Run(Star, StripLen) \o <<NL>>
         [] kind = "moo" -> p \o <<NL, Dollar, Paren, Ch, Ch, Ch, CR, NL>> \o line
         [] kind = "hashes" -> p \o open \o Broken(23, Hash) \o <<NL>>
         [] kind = "letter" -> p \o open \o Broken(40, Ch) \o <<NL>>
         [] kind = "bare" -> p \o line
         [] kind = "nodollar" -> p \o <<NL>> \o line
         [] kind = "inline" -> p \o <<Ch, Dollar, Paren, NL>> \o line
         [] kind = "short" -> Run(Hash, pre)

Kinds == {"lf", "crlf", "long", "decoy", "two", "star", "moo", "hashes",
          "letter", "bare", "nodollar", "inline", "short"}

\* the kinds that hold a header whose line is LANDING_STRIP
HeaderKinds == {"lf", "crlf", "long", "decoy", "two"}

\* little-endian u32 of four bytes; hunt compares it with two values that are
\* each other's byte reversal, so a big-endian read takes the same branch
u32(b0, b1, b2, b3) == b0 + 256 * b1 + 65536 * b2 + 16777216 * b3

\* aligned_part: the maximal 4-byte aligned slice of the buffer at address sptr
aligned_part(buffer, sptr) ==
    IF Len(buffer) < 4 THEN [offset |-> 0, aligned |-> <<>>]
    ELSE LET eptr == sptr + Len(buffer)
             off == (4 - (sptr % 4)) % 4
             s2 == sptr + off
             e2 == eptr - (eptr % 4)
         IN [offset |-> off,
             aligned |-> [i \in 1..((e2 - s2) \div 4) |->
                            u32(buffer[off + 4 * (i - 1) + 1],
                                buffer[off + 4 * (i - 1) + 2],
                                buffer[off + 4 * (i - 1) + 3],
                                buffer[off + 4 * (i - 1) + 4])]]

hunt_stride20(buffer, sptr) ==
    LET ap == aligned_part(buffer, sptr)
        n == Len(ap.aligned)
        hits == {pp \in {(Stride + 1) * k : k \in 0..(n \div (Stride + 1))} :
                    pp < n /\ ap.aligned[pp + 1] \in {HitA, HitB}}
    IN IF hits = {} THEN NoneOut ELSE Some(ap.offset + Min(hits) * 4)

\* find_chapter_header::hunt: the loop reads aligned[0], aligned[19], ... and
\* returns at the first word that is one of the two values
hunt(buffer, sptr) ==
    LET ap == aligned_part(buffer, sptr)
        n == Len(ap.aligned)
        hits == {pp \in {Stride * k : k \in 0..(n \div Stride)} :
                    pp < n /\ ap.aligned[pp + 1] \in {HitA, HitB}}
    IN IF hits = {} THEN NoneOut ELSE Some(ap.offset + Min(hits) * 4)

RECURSIVE backtrack(_, _, _)
\* while midp > 0 && (buffer[midp] is one of skip) { midp -= 1; }
backtrack(buffer, midp, skip) ==
    IF midp > 0 /\ buffer[midp + 1] \in skip
    THEN backtrack(buffer, midp - 1, skip)
    ELSE midp

is_real_inline(buffer, mix) ==
    LET midp == backtrack(buffer, mix, {Hash, Star}) IN
    IF buffer[midp + 1] \notin {CR, NL} THEN NoneOut
    ELSE IF \/ Len(buffer) - midp < StripLen + 1
            \/ SubSeq(buffer, midp + 2, midp + 1 + StripLen) # LANDING_STRIP
    THEN NoneOut
    ELSE LET m2 == backtrack(buffer, midp, {CR, NL}) IN
         IF /\ m2 >= 2
            /\ buffer[m2 + 1] = Paren
            /\ buffer[m2] = Dollar
         THEN Some(m2 - 1)
         ELSE NoneOut

is_real_either(buffer, mix) ==
    LET midp == backtrack(buffer, mix, {Hash, Star}) IN
    IF buffer[midp + 1] \notin {CR, NL} THEN NoneOut
    ELSE IF \/ Len(buffer) - midp < StripLen + 1
            \/ SubSeq(buffer, midp + 2, midp + 1 + StripLen)
                 \notin {LANDING_STRIP, SubSeq(Run(Star, StripLen), 1, StripLen)}
    THEN NoneOut
    ELSE LET m2 == backtrack(buffer, midp, {CR, NL}) IN
         IF /\ m2 >= 2
            /\ buffer[m2 + 1] = Paren
            /\ buffer[m2] = Dollar
            /\ buffer[m2 - 1] \in {CR, NL}
         THEN Some(m2 - 1)
         ELSE NoneOut

\* find_chapter_header::is_real, mix the offset hunt returned
is_real(buffer, mix) ==
    LET midp == backtrack(buffer, mix, {Hash, Star}) IN
    IF buffer[midp + 1] \notin {CR, NL} THEN NoneOut
    ELSE IF \/ Len(buffer) - midp < StripLen + 1
            \/ SubSeq(buffer, midp + 2, midp + 1 + StripLen) # LANDING_STRIP
    THEN NoneOut
    ELSE LET m2 == backtrack(buffer, midp, {CR, NL}) IN
         IF /\ m2 >= 2
            /\ buffer[m2 + 1] = Paren
            /\ buffer[m2] = Dollar
            /\ buffer[m2 - 1] \in {CR, NL}
         THEN Some(m2 - 1)
         ELSE NoneOut

\* "A chapter header is CRLF+ $ ( CRLF+ #*#...#*#, 79 total punctuation":
\* text holds one whose '$' is at offset o
HeaderAt(text, o) ==
    /\ o >= 1
    /\ o + 2 <= Len(text)
    /\ text[o] \in {CR, NL}
    /\ text[o + 1] = Dollar
    /\ text[o + 2] = Paren
    /\ \E k \in 1..(Len(text) - o - 2 - StripLen) :
          /\ \A i \in 1..k : text[o + 2 + i] \in {CR, NL}
          /\ SubSeq(text, o + 2 + k + 1, o + 2 + k + StripLen) = LANDING_STRIP

----------------------------------------------------------------------------
(* Actions of the find_chapter_header specification: one per way through an
   iteration of its loop *)

Running == [done |-> FALSE, out |-> NoneOut]
Returned(o) == [done |-> TRUE, out |-> o]

\* the local `buffer`: the argument less the bytes sliced off so far
Sliced == SubSeq(input.bytes, skipped + 1, Len(input.bytes))
\* buffer.as_ptr()
SlicedPtr == input.base + skipped

\* hunt hits and is_real accepts: return Some(chap + offset)
ChapterFound ==
    /\ input # <<>>
    /\ ~chapter.done
    /\ LET mix == hunt(Sliced, SlicedPtr) IN
       /\ mix.some
       /\ LET chap == is_real(Sliced, mix.val) IN
          /\ chap.some
          /\ chapter' = Returned(Some(chap.val + skipped))
    /\ UNCHANGED <<input, skipped, vec, copied>>
    /\ UNCHANGED <<bvars, lvars>>

\* hunt hits and is_real rejects: buffer = &buffer[mix + 1..]; offset += mix + 1
ChapterRetry ==
    /\ input # <<>>
    /\ ~chapter.done
    /\ LET mix == hunt(Sliced, SlicedPtr) IN
       /\ mix.some
       /\ ~is_real(Sliced, mix.val).some
       /\ skipped' = skipped + mix.val + 1
    /\ UNCHANGED <<input, chapter, vec, copied>>
    /\ UNCHANGED <<bvars, lvars>>

\* hunt finds nothing: return None
ChapterNone ==
    /\ input # <<>>
    /\ ~chapter.done
    /\ ~hunt(Sliced, SlicedPtr).some
    /\ chapter' = Returned(NoneOut)
    /\ UNCHANGED <<input, skipped, vec, copied>>
    /\ UNCHANGED <<bvars, lvars>>

\* the bytes before the first line: every count for a header, so that it
\* takes every position relative to the words hunt reads; a few otherwise
Pres(kind) == IF kind \in HeaderKinds \cup {"star", "short"} THEN 0..MaxPre ELSE 0..3

\* find_chapter_header(buffer) is entered, the buffer living at an address of
\* any alignment
InitChapter ==
    /\ NewBitsets
    /\ IdleLine
    /\ IdleCopy
    /\ \E kind \in Kinds : \E pre \in Pres(kind) : \E base \in 0..3 :
          input = [kind |-> kind, pre |-> pre, base |-> base,
                   bytes |-> LET t == ChapterText(kind, pre) IN SubSeq(t, 1, Len(t))]
    /\ skipped = 0
    /\ chapter = Running

NextChapter ==
    \/ ChapterFound
    \/ ChapterRetry
    \/ ChapterNone

\* one call of find_chapter_header
SpecChapter == InitChapter /\ [][NextChapter]_vars

----------------------------------------------------------------------------
(* copy_portion: src/src/util.rs *)

\* b"Hello world" of test_copy_portion
HelloWorld == <<72, 101, 108, 108, 111, 32, 119, 111, 114, 108, 100>>

\* a byte of an allocation that was never written
Uninit == -1

\* Vec::from(bytes): an allocation of exactly the bytes
VecFrom(bytes) == [len |-> Len(bytes), cap |-> Len(bytes), data |-> bytes]

\* the contents of a vector: the first len bytes of its allocation
Bytes(v) == SubSeq(v.data, 1, v.len)

\* Vec::reserve(additional): room for len + additional bytes; when the
\* allocation is too small it is replaced by one of at least twice the
\* capacity, which holds the same len bytes
reserve(v, additional) ==
    IF v.cap - v.len >= additional THEN v
    ELSE LET c == IF 2 * v.cap > v.len + additional THEN 2 * v.cap
                  ELSE v.len + additional
         IN [len |-> v.len, cap |-> c,
             data |-> SubSeq([i \in 1..c |-> IF i <= v.len THEN v.data[i] ELSE Uninit],
                             1, c)]

\* ptr::write(dst, ptr::read(src)) of n bytes at once: data after the write,
\* src and dst being offsets into the allocation
write_read(data, src, dst, n) ==
    LET val == SubSeq(data, src + 1, src + n) IN
    SubSeq([i \in 1..Len(data) |->
                IF dst < i /\ i <= dst + n THEN val[i - dst] ELSE data[i]],
           1, Len(data))

short_copy_one(data, src, dst, count) ==
    IF count = 0 THEN data ELSE write_read(data, src, dst, 1)

\* short_copy: one element, an array of two, or copy_nonoverlapping (whose
\* ranges never overlap here: the source ends at or before old_len, where the
\* destination begins)
short_copy(data, src, dst, count) ==
    CASE count = 1 -> write_read(data, src, dst, 1)
      [] count = 2 -> write_read(data, src, dst, 2)
      [] OTHER -> write_read(data, src, dst, count)

Done(v) == [ok |-> TRUE, msg |-> "", vec |-> v]
Fault(m, v) == [ok |-> FALSE, msg |-> m, vec |-> v]
\* the panics of `&vec[from]`: slice_end_index_len_fail, slice_index_order_fail
EndOutOfRange == "out of range for slice of length"
StartAfterEnd == "slice index starts at"

copy_portion_clamp(v, copy_start, copy_end) ==
    LET e == IF copy_end > v.len THEN v.len ELSE copy_end
        copy_len == IF e > copy_start THEN e - copy_start ELSE 0
        r == reserve(v, copy_len)
        old_len == r.len
    IN {Done([len |-> old_len + copy_len, cap |-> r.cap,
              data |-> short_copy(r.data, copy_start, old_len, copy_len)])}

\* copy_portion(vec, copy_start..copy_end): the set of outcomes.  `&vec[from]`
\* panics for a range that is reversed or ends beyond the length; which of
\* the two panics a range gets that is both depends on the library version
copy_portion(v, copy_start, copy_end) ==
    IF copy_start > copy_end \/ copy_end > v.len
    THEN (IF copy_start > copy_end THEN {Fault(StartAfterEnd, v)} ELSE {})
         \cup (IF copy_end > v.len THEN {Fault(EndOutOfRange, v)} ELSE {})
    ELSE LET copy_len == copy_end - copy_start
             r == reserve(v, copy_len)
             old_len == r.len
         IN {Done([len |-> old_len + copy_len, cap |-> r.cap,
                   data |-> short_copy(r.data, copy_start, old_len, copy_len)])}

----------------------------------------------------------------------------
(* Actions of the copy_portion specification *)

\* what copied records of a call: its range, the contents of the vector when
\* it was made, and how it ended
Call(v, copy_start, copy_end, out) ==
    [start |-> copy_start, end |-> copy_end, old |-> Bytes(v),
     ok |-> out.ok, msg |-> out.msg]

NoCall == [start |-> 0, end |-> 0, old |-> <<>>, ok |-> TRUE, msg |-> "none"]

\* util::copy_portion(&mut vec, copy_start..copy_end)
CopyPortion(copy_start, copy_end) ==
    /\ vec # <<>>
    /\ vec.len + copy_end - copy_start <= Len(HelloWorld) + MaxGrow
    /\ \E out \in copy_portion(vec, copy_start, copy_end) :
          /\ vec' = out.vec
          /\ copied' = Call(vec, copy_start, copy_end, out)
    /\ UNCHANGED <<input, skipped, chapter>>
    /\ UNCHANGED <<bvars, lvars>>

\* the vector of test_copy_portion, or an empty one
InitCopy ==
    /\ NewBitsets
    /\ IdleLine
    /\ IdleChapter
    /\ vec \in {VecFrom(HelloWorld), VecFrom(<<>>)}
    /\ copied = NoCall

\* the range starts asked for: those of test_copy_portion, and the last
\* bytes, the end and past the end of the vector
Starts == {0, 2, 6, vec.len - 2, vec.len, vec.len + 1} \cap Nat
\* the range ends asked for: a reversed range, copies of 0, 1, 2 and 3 bytes,
\* and, as in test_copy_portion_oob, one byte past the end of the vector
Ends(copy_start) ==
    {copy_start - 1, copy_start, copy_start + 1, copy_start + 2, copy_start + 3,
     vec.len + 1} \cap Nat

NextCopy ==
    \E copy_start \in Starts : \E copy_end \in Ends(copy_start) :
        CopyPortion(copy_start, copy_end)

\* calls of copy_portion on one vector, one after the other
SpecCopy == InitCopy /\ [][NextCopy]_vars

----------------------------------------------------------------------------
\* C1: for a Bitset created empty and subjected to any sequence of set_bit,
\* replace_bit and merge operations, has_bit(b) is true iff b was added by one
\* of those operations; has_bit on a never-added index (far indices and
\* indices beyond the allocated overflow storage included) is false.
C1_HasIffAdded ==
    \A x \in Names : \A b \in Probe :
        has_bit(sets, heap, x, b) <=> (b \in added[x])

\* bs holds overflow storage too short for the far indices, which it is asked
\* about without ever having been given them, while bs2 holds FarBit
C1_Witness ==
    /\ FarBit \in added["bs2"]
    /\ bits_per_word \in added["bs"]
    /\ FarBit \notin added["bs"]
    /\ Len(tail(sets, heap, "bs")) < FarBit \div bits_per_word
    /\ ~has_bit(sets, heap, "bs", FarBit)
    /\ ~has_bit(sets, heap, "bs", ProbeBit)
    /\ has_bit(sets, heap, "bs2", FarBit)

----------------------------------------------------------------------------
\* C2: replace_bit(b) is equivalent to `old = has_bit(b); set_bit(b); old`:
\* from every reachable Bitset state and every index b it returns the pre-call
\* membership of b and leaves the same head and overflow words as set_bit, it
\* returns false whenever the overflow storage had to grow to hold b, and b is
\* a member after the call.
C2_ReplaceIsHasThenSet ==
    /\ \A x \in Names : \A b \in Bits \cup {AbsentBit} :
          LET r == replace_bit(sets, heap, x, b)
              s == set_bit(sets, heap, x, b)
              grows == /\ b >= bits_per_word
                       /\ b \div bits_per_word - 1 >= Len(tail(sets, heap, x))
          IN /\ r.old = has_bit(sets, heap, x, b)
             /\ r.sets = s.sets
             /\ r.heap = s.heap
             /\ grows => r.old = FALSE
    /\ last[1] = "replace_bit" => has_bit(sets, heap, last[2], last[3])

\* replace_bit has just returned true for an index held in overflow storage
C2_Witness ==
    /\ last = <<"replace_bit", "bs", FarBit, TRUE>>
    /\ has_bit(sets, heap, "bs", FarBit)

\* the other Bitset of the scope
Other(x) == CHOOSE y \in Names : y # x

\* C3: after `self |= &other` the members of self are exactly the union of
\* self's previous members and other's members; self's overflow storage is at
\* least as long as other's and as it was, its words beyond other's length
\* keep their value; other is unchanged.
C3_MergeIsUnion ==
    [][\A x \in Names : last' = <<"bitor_assign", x>> =>
        LET r == Other(x)
            sOld == tail(sets, heap, x)
            sNew == tail(sets', heap', x)
            rOld == tail(sets, heap, r)
        IN /\ \A b \in Probe :
                 has_bit(sets', heap', x, b) <=>
                     (has_bit(sets, heap, x, b) \/ has_bit(sets, heap, r, b))
           /\ Len(sNew) >= Len(rOld)
           /\ Len(sNew) >= Len(sOld)
           /\ \A i \in (Len(rOld) + 1)..Len(sOld) : sNew[i] = sOld[i]
           /\ sets'[r] = sets[r]
           /\ tail(sets', heap', r) = rOld
           /\ \A b \in Probe :
                 has_bit(sets', heap', r, b) <=> has_bit(sets, heap, r, b)
      ]_vars

\* bs has just been merged with a bs2 whose overflow storage is shorter than
\* its own: bs keeps the far index stored beyond bs2's length
C3_Witness ==
    /\ last = <<"bitor_assign", "bs">>
    /\ Len(tail(sets, heap, "bs2")) > 0
    /\ Len(tail(sets, heap, "bs")) > Len(tail(sets, heap, "bs2"))
    /\ has_bit(sets, heap, "bs", FarBit)
    /\ has_bit(sets, heap, "bs", bits_per_word)
    /\ has_bit(sets, heap, "bs2", bits_per_word)

\* C4: clone produces a Bitset with the same members whose overflow storage
\* is not shared: the source is left as it was, and every later set_bit,
\* replace_bit or merge on one of the two leaves the head, the overflow words
\* and the membership of the other unchanged.
C4_CloneIndependent ==
    [][/\ last' = <<"clone", "bs">> =>
            /\ \A b \in Probe :
                  has_bit(sets', heap', "bs2", b) <=> has_bit(sets, heap, "bs", b)
            /\ sets'["bs"] = sets["bs"]
            /\ tail(sets', heap', "bs") = tail(sets, heap, "bs")
            /\ sets'["bs2"].tail # None => sets'["bs2"].tail # sets'["bs"].tail
       /\ last'[1] \in {"set_bit", "replace_bit", "bitor_assign"} =>
            LET y == Other(last'[2]) IN
            /\ sets'[y].head = sets[y].head
            /\ tail(sets', heap', y) = tail(sets, heap, y)
            /\ \A b \in Bits :
                  has_bit(sets', heap', y, b) <=> has_bit(sets, heap, y, b)
      ]_vars

\* bs2 came from bs.clone() while bs held overflow storage; since then bs2
\* was given an overflow index and bs a head index the other does not hold
C4_Witness ==
    /\ cloned
    /\ FarBit \in added["bs"] /\ FarBit \in added["bs2"]
    /\ bits_per_word \in added["bs2"] /\ bits_per_word \notin added["bs"]
    /\ 0 \in added["bs"] /\ 0 \notin added["bs2"]
    /\ has_bit(sets, heap, "bs2", bits_per_word)
    /\ ~has_bit(sets, heap, "bs", bits_per_word)

\* C5: iterating a Bitset yields exactly the indices b with has_bit(b), each
\* once, in strictly ascending order (head bits first, then the overflow words,
\* empty words skipped), then None on every further call; every iteration
\* starts again from the lowest member.
C5_IterAscendingExact ==
    iter.live =>
        LET n == Len(yielded)
            done == \E i \in 1..n : ~yielded[i].some
        IN /\ \A i \in 1..n : yielded[i].some =>
                 has_bit(sets, heap, "bs", yielded[i].val)
           /\ \A i, j \in 1..n : (i < j /\ yielded[j].some) =>
                 (yielded[i].some /\ yielded[i].val < yielded[j].val)
           /\ \A b \in Probe :
                 (/\ has_bit(sets, heap, "bs", b)
                  /\ \/ done
                     \/ \E i \in 1..n : yielded[i].some /\ yielded[i].val > b)
                 => \E i \in 1..n : yielded[i] = Some(b)

\* an iteration gave the highest head bit, skipped the empty overflow words up
\* to the far index, gave it, and then returned None on each further call
C5_Witness ==
    /\ iter.live
    /\ Len(yielded) = 3 + MaxNone
    /\ yielded[1] = Some(bits_per_word - 1)
    /\ yielded[2] = Some(bits_per_word)
    /\ yielded[3] = Some(FarBit)
    /\ \A i \in 4..Len(yielded) : yielded[i] = NoneOut

----------------------------------------------------------------------------
\* C6: for every buffer and every offset o with 0 <= o <= len, from_offset
\* returns without a fault the 1-based pair (1 + number of '\n' bytes in
\* [0, o), 1 + o - s), s being one past the last '\n' before o (0 if there is
\* none), whichever page o lies in; for a buffer of fixed-width N-byte lines
\* each ended by '\n' that pair is (1 + o / (N + 1), 1 + o mod (N + 1)).
C6_FromOffsetLineCol ==
    res.op = "from_offset" =>
        LET buf == mem[res.addr].bytes
            o == res.arg
            before == {i \in 1..o : buf[i] = NL}
            s == IF before = {} THEN 0
                 ELSE CHOOSE i \in before : \A j \in before : j <= i
        IN /\ res.ok
           /\ res.v1 = 1 + Cardinality(before)
           /\ res.v2 = 1 + o - s
           /\ FixedWidth(res.buf) =>
                 /\ res.v1 = 1 + (o \div (res.buf.w + 1))
                 /\ res.v2 = 1 + (o % (res.buf.w + 1))

\* from_offset has answered for an offset in the last, partial page of the
\* buffer of RowSize-byte lines, in the middle of a line
C6_Witness ==
    /\ res.op = "from_offset"
    /\ res.ok
    /\ res.buf = Desc(RowSize, 0, LongLen, LongLen)
    /\ res.arg > 2 * PAGE
    /\ res.v1 = 1 + (res.arg \div (RowSize + 1))
    /\ res.v2 > 1

----------------------------------------------------------------------------
\* C7: round trip: for every valid offset o of a buffer, with
\* L = from_offset(buffer, o).line and s = to_offset(buffer, L), it holds that
\* s <= o <= line_end(buffer, s), and o = line_end(buffer, s) exactly when o is
\* the offset of the '\n' ending line L or o is the length of the buffer.
C7_RoundTripWithin ==
    (res.op = "to_offset" /\ res.from >= 0) =>
        /\ res.ok
        /\ LET buf == mem[res.addr].bytes
               o == res.from
               s == res.v1
               e == line_end(buf, s)
           IN /\ s <= o
              /\ o <= e
              /\ (o = e) <=> (o = Len(buf) \/ buf[o + 1] = NL)

\* C7 as stated: s <= o < line_end(buffer, s), o strictly before the end of
\* its line
C7_RoundTripStrict ==
    (res.op = "to_offset" /\ res.from >= 0) =>
        /\ res.ok
        /\ res.v1 <= res.from
        /\ res.from < line_end(mem[res.addr].bytes, res.v1)

\* the round trip was made from the offset of a '\n' in the second page, which
\* ends a line that is not empty
C7_Witness ==
    /\ res.op = "to_offset"
    /\ res.ok
    /\ res.from >= PAGE
    /\ res.from < Len(mem[res.addr].bytes)
    /\ mem[res.addr].bytes[res.from + 1] = NL
    /\ res.v1 < res.from
    /\ line_end(mem[res.addr].bytes, res.v1) = res.from

----------------------------------------------------------------------------
\* C8: to_offset(buffer, line) panics with "line out of range", and returns no
\* clamped offset, whenever line exceeds (number of '\n' in buffer) + 1; for
\* every line in 1..(number of '\n') + 1 it returns without a fault the start
\* offset of the line: 0 for line 1, else one past the (line - 1)-th '\n'.
C8_ToOffsetRangeFault ==
    res.op = "to_offset" =>
        LET buf == mem[res.addr].bytes IN
        IF res.arg > CountNL(buf, 0, Len(buf)) + 1
        THEN ~res.ok /\ res.msg = OutOfRange
        ELSE /\ res.ok
             /\ res.v1 \in 0..Len(buf)
             /\ CountNL(buf, 0, res.v1) = res.arg - 1
             /\ res.v1 = 0 \/ buf[res.v1] = NL

\* to_offset was asked for the line after the last one of a buffer of several
\* pages and lines, the scan ran to the end of the buffer, and it panicked
C8_Witness ==
    /\ res.op = "to_offset"
    /\ ~res.ok
    /\ res.msg = OutOfRange
    /\ Len(mem[res.addr].bytes) >= 2 * PAGE
    /\ CountNL(mem[res.addr].bytes, 0, Len(mem[res.addr].bytes)) > 1
    /\ res.arg = CountNL(mem[res.addr].bytes, 0, Len(mem[res.addr].bytes)) + 2

----------------------------------------------------------------------------
\* C9: within one LineCache lifetime, over any sequence of from_offset and
\* to_offset queries against any mix of buffers, make_index runs at most once
\* per (buffer address, buffer length) key; a stored index is never changed
\* or removed, and a query whose key is stored leaves the map as it is.
C9_BuiltOncePerKey ==
    [][/\ \A k \in DOMAIN lc'.builds : lc'.builds[k] <= 1
       /\ \A k \in DOMAIN lc.map :
             k \in DOMAIN lc'.map /\ lc'.map[k] = lc.map[k]
       /\ (res' # res /\ <<res'.addr, res'.buf.len>> \in DOMAIN lc.map) =>
             (lc'.map = lc.map /\ lc'.builds = lc.builds)
    ]_vars

\* three keys are stored, and the last query was answered from an index that
\* an earlier query had stored under its key for another buffer
C9_Witness ==
    /\ res.op # "none"
    /\ Cardinality(DOMAIN lc.map) >= 3
    /\ <<res.addr, res.buf.len>> \in DOMAIN lc.map
    /\ lc.origin[<<res.addr, res.buf.len>>] # res.buf
    /\ lc.builds[<<res.addr, res.buf.len>>] = 1

----------------------------------------------------------------------------
\* C10: if a LineCache is queried for a buffer, and later a buffer with the
\* same address and length but different contents is queried with an in-range
\* offset, the stale index is used and the query returns a result: it does
\* not panic.
C10_StaleNoCrash ==
    (/\ res.op = "from_offset"
     /\ res.arg <= res.buf.len
     /\ lc.origin[<<res.addr, res.buf.len>>] # res.buf) => res.ok

----------------------------------------------------------------------------
\* C11: whenever find_chapter_header returns Some(o), also after rejected
\* coarse hits and retries, o is an offset into the original buffer with
\* buffer[o] = '$', buffer[o+1] = '(', buffer[o-1] a CR or LF, followed by one
\* or more CR/LF bytes and then the 79-byte marker; it returns None for
\* buffers shorter than the marker, for a bare 79-byte run without a "$("
\* line before it, for "$(MOO" before it, and for a run broken by another byte.
C11_ChapterSound ==
    (input # <<>> /\ chapter.done) =>
        /\ chapter.out.some => HeaderAt(input.bytes, chapter.out.val)
        /\ input.kind \in {"short", "bare", "nodollar", "inline", "moo",
                           "hashes", "letter"} => ~chapter.out.some

\* the header of test_find_chapter that follows a bare marker line was
\* returned, at 86, after hits in the bare line had been rejected
C11_Witness ==
    /\ input # <<>>
    /\ input.kind = "decoy"
    /\ input.pre = 0
    /\ skipped > 0
    /\ chapter = Returned(Some(86))

----------------------------------------------------------------------------
\* C12: for every buffer that contains a well-formed header (CR/LF, "$(", one
\* or more CR/LF, the 79-byte marker), for every alignment of the buffer's
\* address modulo 4 and every byte offset of the marker, find_chapter_header
\* returns Some(offset of the '$' of the first well-formed header), also when
\* earlier coarse hits were rejected and the hunt resumed after them.
C12_ChapterComplete ==
    (input # <<>> /\ chapter.done) =>
        LET headers == {o \in 1..Len(input.bytes) : HeaderAt(input.bytes, o)} IN
        /\ headers # {} => chapter.out = Some(Min(headers))
        /\ input.kind \in HeaderKinds => headers # {}

\* a header at the largest offset, in a buffer at an odd address, was
\* returned after hits before it had been rejected
C12_Witness ==
    /\ input # <<>>
    /\ input.kind = "decoy"
    /\ input.pre = MaxPre
    /\ input.base = 3
    /\ skipped > StripLen
    /\ chapter.done
    /\ chapter.out = Some(MaxPre + StripLen + 7)

----------------------------------------------------------------------------
\* C13: find_chapter_header recognizes the marker line of 79 alternating
\* bytes that begins with '#' (the header is reported at the offset of its
\* '$'); a header whose 79-byte line begins with '*' is not recognized: the
\* coarse hunt hits in its line, every hit is rejected, and None is returned.
C13_HashPhaseOnly ==
    (input # <<>> /\ chapter.done) =>
        /\ input.kind = "lf" => chapter.out = Some(input.pre + 1)
        /\ input.kind = "crlf" => chapter.out = Some(input.pre + 2)
        /\ input.kind = "star" => ~chapter.out.some

\* C13 as stated: the header whose line begins "#*#*" and the header whose
\* line begins "*#*#" are both found, at the offset of '$'
C13_EitherPhase ==
    (input # <<>> /\ chapter.done /\ input.kind \in {"lf", "star"}) =>
        chapter.out = Some(input.pre + 1)

\* a header whose line begins with '*' was hit by the hunt, rejected, and None
\* returned
C13_Witness ==
    /\ input # <<>>
    /\ input.kind = "star"
    /\ skipped > input.pre + 4
    /\ chapter = Returned(NoneOut)

----------------------------------------------------------------------------
\* C14: copy_portion(vec, range) checks the range against the vector's
\* current length (bytes appended by earlier calls included) before any copy:
\* when range.end exceeds the current length, or range.start > range.end, it
\* panics (with "... out of range ..." for a range that is not reversed) and
\* the vector's contents and length are unchanged.
C14_CopyRangeFault ==
    (vec # <<>> /\ copied.msg # "none"
        /\ (copied.end > Len(copied.old) \/ copied.start > copied.end)) =>
        /\ ~copied.ok
        /\ copied.msg \in {EndOutOfRange, StartAfterEnd}
        /\ copied.start <= copied.end => copied.msg = EndOutOfRange
        /\ vec.len = Len(copied.old)
        /\ Bytes(vec) = copied.old

\* a vector that earlier calls had appended to was asked for the one byte past
\* its end, as in test_copy_portion_oob, and the call panicked
C14_Witness ==
    /\ vec # <<>>
    /\ Len(copied.old) > Len(HelloWorld)
    /\ copied.start = Len(copied.old)
    /\ copied.end = Len(copied.old) + 1
    /\ ~copied.ok
    /\ copied.msg = EndOutOfRange
    /\ Bytes(vec) = copied.old

----------------------------------------------------------------------------
\* C15: for every byte vector v and every range r with
\* r.start <= r.end <= len(v), copy_portion(v, r) returns without a fault,
\* leaves the first len(v) bytes unchanged and appends exactly the bytes v[r]
\* (new length len(v) + r.end - r.start, for copies of 0, 1, 2 and more bytes
\* alike), also when the range lies in a region appended by an earlier call.
C15_CopyAppendsRange ==
    (vec # <<>> /\ copied.msg # "none"
        /\ copied.start <= copied.end /\ copied.end <= Len(copied.old)) =>
        /\ copied.ok
        /\ vec.len = Len(copied.old) + (copied.end - copied.start)
        /\ vec.len <= vec.cap
        /\ Bytes(vec) = copied.old \o SubSeq(copied.old, copied.start + 1, copied.end)

\* after copy_portion(&mut s, 2..4) made "Hello worldll", the two appended
\* bytes were copied again
C15_Witness ==
    /\ vec # <<>>
    /\ copied.ok
    /\ copied.old = HelloWorld \o <<108, 108>>
    /\ copied.start = Len(HelloWorld)
    /\ copied.end = Len(HelloWorld) + 2
    /\ Bytes(vec) = HelloWorld \o <<108, 108, 108, 108>>

----------------------------------------------------------------------------
\* C16: storage layout of the Bitset: with W the word width in bits, head
\* holds the indices [0, W) and word j of the overflow tail holds the indices
\* [(j+1)*W, (j+2)*W), the first overflow word starting right after head's
\* range: an index b added with b >= W is bit b mod W of tail word b / W - 1,
\* and every bit p of head or of tail word j stands for the added index p or
\* (j+1)*W + p.
C16_TailWordLayout ==
    \A x \in Names :
        LET t == tail(sets, heap, x) IN
        /\ \A b \in added[x] :
              IF b < bits_per_word THEN b \in sets[x].head
              ELSE /\ b \div bits_per_word - 1 < Len(t)
                   /\ (b % bits_per_word) \in t[b \div bits_per_word]
        /\ \A p \in sets[x].head : p \in 0..(bits_per_word - 1) /\ p \in added[x]
        /\ \A j \in 0..(Len(t) - 1) : \A p \in t[j + 1] :
              /\ p \in 0..(bits_per_word - 1)
              /\ ((j + 1) * bits_per_word + p) \in added[x]

\* C16 as stated: an index b >= W added to a Bitset is stored in the tail
\* word j with (j+2)*W <= b < (j+3)*W
C16_TailWordPlusTwo ==
    \A x \in Names : \A b \in added[x] :
        b >= bits_per_word =>
            LET j == b \div bits_per_word - 2
                t == tail(sets, heap, x)
            IN /\ j >= 0
               /\ j < Len(t)
               /\ (b % bits_per_word) \in t[j + 1]

\* bs holds the first index after head's range, in its first overflow word,
\* and the far index in its last one
C16_Witness ==
    /\ {bits_per_word, FarBit} \subseteq added["bs"]
    /\ Len(tail(sets, heap, "bs")) = FarBit \div bits_per_word
    /\ 0 \in tail(sets, heap, "bs")[1]
    /\ (FarBit % bits_per_word) \in tail(sets, heap, "bs")[FarBit \div bits_per_word]

----------------------------------------------------------------------------
\* C17: for every buffer, make_index returns a table of floor(len/256) + 1
\* entries with entry 0 = 0 and entry k = the number of '\n' bytes in bytes
\* [0, k*256); the table is non-decreasing with consecutive differences in
\* [0, 256]; the i8 accumulator of a 128-byte block does not overflow (it ends
\* at minus the number of '\n' in the block) and gives the exact count, also
\* when all 128 bytes are '\n'.
C17_IndexExact ==
    \A k \in DOMAIN lc.map :
        LET buf == mem[k[1]].bytes
            ix == lc.map[k]
            n == Len(buf) \div PAGE
        IN /\ Len(ix) = n + 1
           /\ ix[1] = 0
           /\ \A i \in 1..n :
                 /\ ix[i + 1] = CountNL(buf, 0, i * PAGE)
                 /\ (ix[i + 1] - ix[i]) \in 0..PAGE
           /\ \A b \in 0..(n * (PAGE \div Block) - 1) :
                 LET c == CountNL(buf, b * Block, (b + 1) * Block)
                     inner == inner_loop(buf, b * Block, Block)
                 IN /\ inner = 0 - c
                    /\ wrapping_neg(AsU8(inner)) = c

\* the index of the buffer whose every byte is '\n' has been built
C17_Witness ==
    /\ mem # <<>>
    /\ mem[1].d = Desc(0, 0, LongLen, LongLen)
    /\ <<1, LongLen>> \in DOMAIN lc.map
    /\ lc.map[<<1, LongLen>>] = <<0, PAGE, 2 * PAGE>>
    /\ inner_loop(mem[1].bytes, 0, Block) = 0 - Block

====
